---- MODULE Spec2Model ----
(***************************************************************************)
(* The WhatsApp webhook handler reply_to_whatsapp_message                  *)
(* (src/app/whatsapp/app.py) and the completion gateway chat_completion    *)
(* (src/chat/handlers/openai/completions.py) as a state machine.           *)
(*                                                                         *)
(* Text is a sequence of tokens; the token " " is whitespace.  A session   *)
(* is a record (sender, messages, start_system_message, goodbye_message,   *)
(* language).  A worker handles one request at a time and keeps the        *)
(* handler's locals; get_or_create hands it the persisted session and      *)
(* save writes its copy back.                                              *)
(***************************************************************************)
EXTENDS Naturals, Sequences, FiniteSets, TLC

\* ------------------------------------------------------------------ bounds
\* Longest message list a session may reach.
MaxLen == 6

\* ------------------------------------------------------------------ inputs
Workers == {"w1", "w2"}
Phones == {"+1234567890"}
\* What datetime.now().strftime("%Y-%m-%d") can report.
Days == {"2024-01-01"}
Absent == "<absent>"
ProfileNames == {Absent, "Test User"}
Languages == {"english"}
WS == " "
NoneMsg == <<"<None>">>
\* What verify_and_process_media(parse_request_values(...)) can hand back.
Bodies == {NoneMsg, <<>>, <<WS>>, <<"bye">>, <<"hello">>}
\* What the provider can return as the first choice's content.
Replies == {<<"ok">>, <<WS, "ok">>, <<"ok", WS, "[img:", "bike", "]">>}

\* ------------------------------------------------------------------ text
RECURSIVE LStrip(_)
LStrip(s) == IF s # <<>> /\ Head(s) = WS THEN LStrip(Tail(s)) ELSE s

RECURSIVE RStrip(_)
RStrip(s) ==
    IF s # <<>> /\ s[Len(s)] = WS THEN RStrip(SubSeq(s, 1, Len(s) - 1)) ELSE s

\* str.strip()
Strip(s) == RStrip(LStrip(s))

\* str.format(user=..., today=...): every placeholder token is substituted.
Format(template, user, day) ==
    [i \in 1..Len(template) |->
        IF template[i] = "{user}" THEN user
        ELSE IF template[i] = "{today}" THEN day
        ELSE template[i]]

\* ------------------------------------------------------------------ configuration
start_template == <<"sys", "{user}", "{today}">>
goodbye_message == <<"Goodbye! I'll be here if you need me.">>
SorryText == <<"Sorry, I didn't understand that. Please try again.">>
EndSignals == {<<"bye">>}

\* ------------------------------------------------------------------ state
VARIABLES
    store,       \* the session store: phone number -> persisted session
    client,      \* completions.client is not None
    pc,          \* per worker: position in the handler
    chat,        \* per worker: the session the handler works on
    msg,         \* per worker: the normalized inbound message
    reply,       \* per worker: the provider's raw reply, and the text and
                 \* img_prompt that verify_image_generation made of it
    seen,        \* per worker: the message list handed to the provider
    sent,        \* per worker: the outbound messages of this request, in order
    trace,       \* per worker: the calls of this request, in order
    resp,        \* per worker: the HTTP response of this request
    saved,       \* per worker: the session this request handed to save
    base         \* per worker: [len, fresh] of the session as get_or_create returned it

vars == <<store, client, pc, chat, msg, reply, seen, sent, trace, resp, saved, base>>

NoSender == [phone_number |-> "", name |-> ""]
NoChat == [sender |-> NoSender, messages |-> <<>>,
           start_system_message |-> <<>>, goodbye_message |-> <<>>,
           language |-> ""]
NoReply == [raw |-> <<>>, text |-> <<>>, img_prompt |-> <<>>]
NoBase == [len |-> 0, fresh |-> FALSE]

\* ------------------------------------------------------------------ session store
make_message(content, role) == [role |-> role, content |-> content]

add_message(c, content, role) ==
    [c EXCEPT !.messages = Append(@, make_message(content, role))]

NewChat(sender) ==
    [sender |-> sender,
     messages |-> <<make_message(start_template, "system")>>,
     start_system_message |-> start_template,
     goodbye_message |-> goodbye_message,
     language |-> ""]

get_or_create(st, sender) ==
    IF sender.phone_number \in DOMAIN st
    THEN st[sender.phone_number]
    ELSE NewChat(sender)

SaveSession(st, c) ==
    [ph \in DOMAIN st \cup {c.sender.phone_number} |->
        IF ph = c.sender.phone_number THEN c ELSE st[ph]]

\* ------------------------------------------------------------------ handler pieces
\* app.py:89-92
MakeSender(from, profile) ==
    [phone_number |-> from, name |-> IF profile = Absent THEN from ELSE profile]

\* The refresh written as an insert at the head instead of an overwrite.
RefreshSystemPrompt_Insert(c, sender, day) ==
    LET text == Format(start_template, sender.name, day)
    IN  [c EXCEPT !.start_system_message = text,
                  !.messages = <<make_message(text, "system")>> \o @]

\* app.py:96-99
RefreshSystemPrompt(c, sender, day) ==
    LET text == Format(start_template, sender.name, day)
    IN  [c EXCEPT !.start_system_message = text,
                  !.messages[1] = make_message(text, "system")]

\* The emptiness test without the strip().
check_message_empty_NoStrip(m) == m = NoneMsg \/ m = <<>>

\* app.py:169-176
check_message_empty(m) == m = NoneMsg \/ Strip(m) = <<>>

check_conversation_end(m, c) == m \in EndSignals

\* app.py:163
GoodbyeText(c) == Format(c.goodbye_message, c.sender.name, "{today}")

Init ==
    /\ store = [ph \in {} |-> NoChat]
    /\ client \in BOOLEAN
    /\ pc = [w \in Workers |-> "idle"]
    /\ chat = [w \in Workers |-> NoChat]
    /\ msg = [w \in Workers |-> <<>>]
    /\ reply = [w \in Workers |-> NoReply]
    /\ seen = [w \in Workers |-> <<>>]
    /\ sent = [w \in Workers |-> <<>>]
    /\ trace = [w \in Workers |-> <<>>]
    /\ resp = [w \in Workers |-> "none"]
    /\ saved = [w \in Workers |-> NoChat]
    /\ base = [w \in Workers |-> NoBase]

\* ------------------------------------------------------------------ reply post-processing
RECURSIVE IndexOf(_, _, _)
IndexOf(s, tok, i) ==
    IF i > Len(s) THEN 0 ELSE IF s[i] = tok THEN i ELSE IndexOf(s, tok, i + 1)

\* Splits the reply from an embedded [img:"<prompt>"] directive.
verify_image_generation(r) ==
    LET open == IndexOf(r, "[img:", 1)
        close == IF open = 0 THEN 0 ELSE IndexOf(r, "]", open + 1)
    IN  IF open = 0 \/ close = 0
        THEN [text |-> r, img_prompt |-> <<>>]
        ELSE [text |-> Strip(SubSeq(r, 1, open - 1) \o SubSeq(r, close + 1, Len(r))),
              img_prompt |-> SubSeq(r, open + 1, close - 1)]

\* The split whose text half is dropped: the raw reply stays the reply.
ReplyAndPrompt_KeepRaw(raw) ==
    LET split == verify_image_generation(Strip(raw))
    IN  [raw |-> raw, text |-> Strip(raw), img_prompt |-> split.img_prompt]

\* app.py:120-124: reply = completion(...).strip(); reply, img_prompt = verify(reply)
ReplyAndPrompt(raw) ==
    LET split == verify_image_generation(Strip(raw))
    IN  [raw |-> raw, text |-> split.text, img_prompt |-> split.img_prompt]

\* app.py:138: f'[img:"{img_prompt}"]'
ImageMarker(img_prompt) == <<"[img:">> \o img_prompt \o <<"]">>

\* app.py:134-138
RecordReply(c, text, img_prompt) ==
    LET c1 == add_message(c, text, "assistant")
    IN  IF img_prompt # <<>>
        THEN add_message(c1, ImageMarker(img_prompt), "system")
        ELSE c1

\* The bootstrap test without the length condition.
FirstRealTurn_Always(c) == Len(c.messages) >= 1

\* app.py:113
FirstRealTurn(c) == Len(c.messages) = 1

\* One outbound message as the messaging provider saw it.
Outbound(text, to, ok) == [text |-> text, to |-> to, delivered |-> ok]

\* send_message(text, to, on_failure): the messages that go out when the
\* provider accepts (ok) or rejects the first attempt.
SendWithFallback(text, to, on_failure, ok) ==
    IF ok THEN <<Outbound(text, to, TRUE)>>
    ELSE <<Outbound(text, to, FALSE), Outbound(on_failure, to, TRUE)>>

Terminal == {"idle", "done", "error"}
InFlight(w) == pc[w] \notin Terminal

\* ------------------------------------------------------------------ actions
\* app.py:84-105: identify, resolve the session, refresh the system prompt,
\* normalize the inbound message.
StartFor(w, from, profile, body, today) ==
    LET sender == MakeSender(from, profile)
        got == get_or_create(store, sender)
    IN  /\ pc[w] \in Terminal
        /\ Len(got.messages) + 3 <= MaxLen
        /\ pc' = [pc EXCEPT ![w] = "check"]
        /\ chat' = [chat EXCEPT ![w] = RefreshSystemPrompt(got, sender, today)]
        /\ base' = [base EXCEPT ![w] =
                       [len |-> Len(got.messages),
                        fresh |-> from \notin DOMAIN store]]
        /\ msg' = [msg EXCEPT ![w] = body]
        /\ reply' = [reply EXCEPT ![w] = NoReply]
        /\ seen' = [seen EXCEPT ![w] = <<>>]
        /\ sent' = [sent EXCEPT ![w] = <<>>]
        /\ trace' = [trace EXCEPT ![w] = <<"get_or_create", "refresh">>]
        /\ resp' = [resp EXCEPT ![w] = "none"]
        /\ saved' = [saved EXCEPT ![w] = NoChat]
        /\ UNCHANGED <<store, client>>

Start(w) ==
    \E from \in Phones, profile \in ProfileNames, body \in Bodies, today \in Days :
        StartFor(w, from, profile, body, today)

\* app.py:157-160 with 108-109: the empty short-circuit.  send_message has no
\* on_failure here, so a rejected send raises out of the handler.
CheckEmpty(w) ==
    /\ pc[w] = "check"
    /\ check_message_empty(msg[w])
    /\ \E ok \in BOOLEAN :
        /\ sent' = [sent EXCEPT ![w] =
                       Append(@, Outbound(SorryText, chat[w].sender.phone_number, ok))]
        /\ pc' = [pc EXCEPT ![w] = IF ok THEN "done" ELSE "error"]
        /\ resp' = [resp EXCEPT ![w] = IF ok THEN "ok200" ELSE "err500"]
    /\ trace' = [trace EXCEPT ![w] = Append(@, "send")]
    /\ UNCHANGED <<store, client, chat, msg, reply, seen, saved, base>>

\* The goodbye short-circuit taken after the user turn was appended.
CheckGoodbye_Appends(w) ==
    /\ pc[w] = "check"
    /\ ~check_message_empty(msg[w])
    /\ check_conversation_end(msg[w], chat[w])
    /\ chat' = [chat EXCEPT ![w] = add_message(@, msg[w], "user")]
    /\ \E ok \in BOOLEAN :
        /\ sent' = [sent EXCEPT ![w] =
                       Append(@, Outbound(GoodbyeText(chat[w]),
                                          chat[w].sender.phone_number, ok))]
        /\ pc' = [pc EXCEPT ![w] = IF ok THEN "done" ELSE "error"]
        /\ resp' = [resp EXCEPT ![w] = IF ok THEN "ok200" ELSE "err500"]
    /\ trace' = [trace EXCEPT ![w] = Append(@, "send")]
    /\ UNCHANGED <<store, client, msg, reply, seen, saved, base>>

\* app.py:161-166 with 108-109: the goodbye short-circuit.
CheckGoodbye(w) ==
    /\ pc[w] = "check"
    /\ ~check_message_empty(msg[w])
    /\ check_conversation_end(msg[w], chat[w])
    /\ \E ok \in BOOLEAN :
        /\ sent' = [sent EXCEPT ![w] =
                       Append(@, Outbound(GoodbyeText(chat[w]),
                                          chat[w].sender.phone_number, ok))]
        /\ pc' = [pc EXCEPT ![w] = IF ok THEN "done" ELSE "error"]
        /\ resp' = [resp EXCEPT ![w] = IF ok THEN "ok200" ELSE "err500"]
    /\ trace' = [trace EXCEPT ![w] = Append(@, "send")]
    /\ UNCHANGED <<store, client, chat, msg, reply, seen, saved, base>>

\* app.py:167 with 108, 112-113: neither short-circuit applies.
CheckPass(w) ==
    /\ pc[w] = "check"
    /\ ~check_message_empty(msg[w])
    /\ ~check_conversation_end(msg[w], chat[w])
    /\ pc' = [pc EXCEPT ![w] = IF FirstRealTurn(chat[w]) THEN "lang" ELSE "gen"]
    /\ UNCHANGED <<store, client, chat, msg, reply, seen, sent, trace, resp, saved, base>>

\* app.py:114: await ensure_user_language(chat, text=msg)
Lang(w) ==
    /\ pc[w] = "lang"
    /\ \E l \in Languages : chat' = [chat EXCEPT ![w].language = l]
    /\ trace' = [trace EXCEPT ![w] = Append(@, "language")]
    /\ pc' = [pc EXCEPT ![w] = "gen"]
    /\ UNCHANGED <<store, client, msg, reply, seen, sent, resp, saved, base>>

\* The completion called before the user turn is appended.
GenOk_CompletionFirst(w) ==
    LET c1 == add_message(chat[w], msg[w], "user")
    IN  /\ pc[w] = "gen"
        /\ client
        /\ \E raw \in Replies : reply' = [reply EXCEPT ![w] = ReplyAndPrompt(raw)]
        /\ chat' = [chat EXCEPT ![w] = c1]
        /\ seen' = [seen EXCEPT ![w] = chat[w].messages]
        /\ trace' = [trace EXCEPT ![w] = @ \o <<"completion", "add_user">>]
        /\ pc' = [pc EXCEPT ![w] = "deliver"]
        /\ UNCHANGED <<store, client, msg, sent, resp, saved, base>>

\* app.py:119-124 with completions.py:86-91,99-101: the provider answers.
GenOk(w) ==
    LET c1 == add_message(chat[w], msg[w], "user")
    IN  /\ pc[w] = "gen"
        /\ client
        /\ \E raw \in Replies : reply' = [reply EXCEPT ![w] = ReplyAndPrompt(raw)]
        /\ chat' = [chat EXCEPT ![w] = c1]
        /\ seen' = [seen EXCEPT ![w] = c1.messages]
        /\ trace' = [trace EXCEPT ![w] = @ \o <<"add_user", "completion">>]
        /\ pc' = [pc EXCEPT ![w] = "deliver"]
        /\ UNCHANGED <<store, client, msg, sent, resp, saved, base>>

\* The failing completion with a save on the way out.
GenFail_Persisting(w) ==
    LET c1 == add_message(chat[w], msg[w], "user")
    IN  /\ pc[w] = "gen"
        /\ chat' = [chat EXCEPT ![w] = c1]
        /\ store' = SaveSession(store, c1)
        /\ seen' = [seen EXCEPT ![w] = IF client THEN c1.messages ELSE <<>>]
        /\ trace' = [trace EXCEPT ![w] = @ \o <<"add_user", "completion_failed">>]
        /\ pc' = [pc EXCEPT ![w] = "error"]
        /\ resp' = [resp EXCEPT ![w] = "err500"]
        /\ UNCHANGED <<client, msg, reply, sent, saved, base>>

\* app.py:119-120 with completions.py:86-96: the client is missing
\* (RuntimeError) or the provider call raises; nothing in the handler catches it.
GenFail(w) ==
    LET c1 == add_message(chat[w], msg[w], "user")
    IN  /\ pc[w] = "gen"
        /\ chat' = [chat EXCEPT ![w] = c1]
        /\ seen' = [seen EXCEPT ![w] = IF client THEN c1.messages ELSE <<>>]
        /\ trace' = [trace EXCEPT ![w] = @ \o <<"add_user", "completion_failed">>]
        /\ pc' = [pc EXCEPT ![w] = "error"]
        /\ resp' = [resp EXCEPT ![w] = "err500"]
        /\ UNCHANGED <<store, client, msg, reply, sent, saved, base>>

\* app.py:127-138: deliver the reply, record the assistant turn and the marker.
Deliver(w) ==
    /\ pc[w] = "deliver"
    /\ \E ok \in BOOLEAN :
        sent' = [sent EXCEPT ![w] =
                    @ \o SendWithFallback(reply[w].text, chat[w].sender.phone_number,
                                          SorryText, ok)]
    /\ chat' = [chat EXCEPT ![w] = RecordReply(@, reply[w].text, reply[w].img_prompt)]
    /\ trace' = [trace EXCEPT ![w] =
                    @ \o <<"send", "add_assistant">>
                      \o (IF reply[w].img_prompt # <<>> THEN <<"add_marker">> ELSE <<>>)]
    /\ pc' = [pc EXCEPT ![w] = IF reply[w].img_prompt # <<>> THEN "image" ELSE "save"]
    /\ UNCHANGED <<store, client, msg, reply, seen, resp, saved, base>>

\* app.py:139: await check_and_send_image_generation(img_prompt, chat, client)
Image(w) ==
    /\ pc[w] = "image"
    /\ trace' = [trace EXCEPT ![w] = Append(@, "image")]
    /\ pc' = [pc EXCEPT ![w] = "save"]
    /\ UNCHANGED <<store, client, chat, msg, reply, seen, sent, resp, saved, base>>

\* The save of a handler that re-reads the stored session and adds only the
\* turns of its own request to it.
Save_Merging(w) ==
    LET ph == chat[w].sender.phone_number
        cur == IF ph \in DOMAIN store THEN store[ph].messages
               ELSE SubSeq(chat[w].messages, 1, base[w].len)
        own == SubSeq(chat[w].messages, base[w].len + 1, Len(chat[w].messages))
        merged == [chat[w] EXCEPT !.messages = cur \o own]
    IN  /\ pc[w] = "save"
        /\ store' = SaveSession(store, merged)
        /\ saved' = [saved EXCEPT ![w] = merged]
        /\ trace' = [trace EXCEPT ![w] = Append(@, "save")]
        /\ pc' = [pc EXCEPT ![w] = "done"]
        /\ resp' = [resp EXCEPT ![w] = "ok200"]
        /\ UNCHANGED <<client, chat, msg, reply, seen, sent, base>>

\* app.py:144-148: chat.save() and the acknowledgment.
Save(w) ==
    /\ pc[w] = "save"
    /\ store' = SaveSession(store, chat[w])
    /\ saved' = [saved EXCEPT ![w] = chat[w]]
    /\ trace' = [trace EXCEPT ![w] = Append(@, "save")]
    /\ pc' = [pc EXCEPT ![w] = "done"]
    /\ resp' = [resp EXCEPT ![w] = "ok200"]
    /\ UNCHANGED <<client, chat, msg, reply, seen, sent, base>>

Step(w) ==
    \/ CheckEmpty(w)
    \/ CheckGoodbye(w)
    \/ CheckPass(w)
    \/ Lang(w)
    \/ GenOk(w)
    \/ GenFail(w)
    \/ Deliver(w)
    \/ Image(w)
    \/ Save(w)

\* Requests arrive at any time, also while another request of the same
\* sender is in the handler.
Next ==
    \/ \E w \in Workers : Start(w)
    \/ \E w \in Workers : Step(w)

Spec == Init /\ [][Next]_vars

\* Requests of one sender are handled one at a time.
StartSeq(w) ==
    \E from \in Phones, profile \in ProfileNames, body \in Bodies, today \in Days :
        /\ \A v \in Workers : InFlight(v) => chat[v].sender.phone_number # from
        /\ StartFor(w, from, profile, body, today)

NextSeq ==
    \/ \E w \in Workers : StartSeq(w)
    \/ \E w \in Workers : Step(w)

SpecSeq == Init /\ [][NextSeq]_vars

TypeOK ==
    /\ \A w \in Workers : pc[w] \in Terminal \cup
           {"check", "lang", "gen", "deliver", "image", "save"}
    /\ \A w \in Workers : Len(chat[w].messages) <= MaxLen

\* ------------------------------------------------------------------ vocabulary of the properties
Has(tr, e) == \E i \in 1..Len(tr) : tr[i] = e

\* Every a in tr comes before every b in tr.
Before(tr, a, b) ==
    \A i, j \in 1..Len(tr) : (tr[i] = a /\ tr[j] = b) => i < j

Roles(ms) == [i \in 1..Len(ms) |-> ms[i].role]

IsPrompt(m) == m.role = "system" /\ m.content # <<>> /\ m.content[1] = "sys"

PromptCount(ms) == Cardinality({i \in 1..Len(ms) : IsPrompt(ms[i])})

\* The normalized content is absent, empty or whitespace-only.
IsBlank(m) == m = NoneMsg \/ \A i \in 1..Len(m) : m[i] = WS

IsGoodbye(m) == ~IsBlank(m) /\ m \in EndSignals

PassedChecks(m) == ~IsBlank(m) /\ m \notin EndSignals

Finished(w) == pc[w] \in {"done", "error"}

PhoneOf(w) == chat[w].sender.phone_number

DirectiveTokens == {"[img:", "bike", "]"}

HasDirective(raw) == \E i \in 1..Len(raw) : raw[i] = "[img:"

\* The reply as the user is meant to see it: the directive's tokens removed.
WithoutDirective(raw) ==
    Strip(SelectSeq(raw, LAMBDA t : t \notin DirectiveTokens))

\* system prompt, then groups of (user, assistant, optional system marker)
RECURSIVE Groups(_)
Groups(rs) ==
    IF rs = <<>> THEN TRUE
    ELSE /\ Len(rs) >= 2
         /\ rs[1] = "user"
         /\ rs[2] = "assistant"
         /\ IF Len(rs) >= 3 /\ rs[3] = "system"
            THEN Groups(SubSeq(rs, 4, Len(rs)))
            ELSE Groups(SubSeq(rs, 3, Len(rs)))

WellShaped(ms) ==
    /\ ms # <<>>
    /\ ms[1].role = "system"
    /\ Groups(Tail(Roles(ms)))

\* ------------------------------------------------------------------ C1
\* C1: every request ends with the acknowledgment and a 200-level status,
\* whatever the completion call and the outbound sends do.
C1_AlwaysAcknowledged ==
    \A w \in Workers : Finished(w) => resp[w] = "ok200"

\* ------------------------------------------------------------------ C2
\* C2: in every session, stored or in a handler, the first message has role
\* system and it is the only system-prompt entry; right after the refresh
\* the list is as long as get_or_create returned it.
C2_SystemPromptSlot ==
    /\ \A ph \in DOMAIN store :
          /\ store[ph].messages # <<>>
          /\ store[ph].messages[1].role = "system"
          /\ PromptCount(store[ph].messages) = 1
    /\ \A w \in Workers :
          pc[w] # "idle" =>
              /\ chat[w].messages # <<>>
              /\ chat[w].messages[1].role = "system"
              /\ PromptCount(chat[w].messages) = 1
              /\ pc[w] = "check" => Len(chat[w].messages) = base[w].len

\* A request on a stored session whose refresh put a different prompt in
\* slot 0 and left the length alone.
C2_Witness ==
    \E w \in Workers :
        /\ pc[w] = "check"
        /\ PhoneOf(w) \in DOMAIN store
        /\ base[w].len >= 3
        /\ Len(chat[w].messages) = base[w].len
        /\ chat[w].messages[1] # store[PhoneOf(w)].messages[1]

\* ------------------------------------------------------------------ C3
\* C3: a request with absent, empty or whitespace-only content sends the
\* fixed apology to the sender, leaves the message list as long as it was,
\* and calls neither the completion gateway nor save.
C3_EmptyShortCircuit ==
    \A w \in Workers :
        (pc[w] \notin {"idle", "check"} /\ IsBlank(msg[w])) =>
            /\ Finished(w)
            /\ Len(sent[w]) = 1
            /\ sent[w][1].text = SorryText
            /\ sent[w][1].to = PhoneOf(w)
            /\ Len(chat[w].messages) = base[w].len
            /\ seen[w] = <<>>
            /\ saved[w] = NoChat
            /\ ~Has(trace[w], "completion")
            /\ ~Has(trace[w], "completion_failed")
            /\ ~Has(trace[w], "save")

\* A whitespace-only message on a stored session, apology delivered.
C3_Witness ==
    \E w \in Workers :
        /\ pc[w] = "done"
        /\ msg[w] = <<WS>>
        /\ base[w].len >= 3
        /\ sent[w][1].delivered

\* ------------------------------------------------------------------ C4
\* C4: a request whose content is the end-of-conversation signal sends the
\* goodbye message formatted with the session's sender name, leaves the
\* message list as long as it was, and appends or saves no turn.
C4_GoodbyeShortCircuit ==
    \A w \in Workers :
        (pc[w] \notin {"idle", "check"} /\ IsGoodbye(msg[w])) =>
            /\ Finished(w)
            /\ Len(sent[w]) = 1
            /\ sent[w][1].text =
                   Format(goodbye_message, chat[w].sender.name, "{today}")
            /\ sent[w][1].to = PhoneOf(w)
            /\ Len(chat[w].messages) = base[w].len
            /\ \A i \in 1..Len(chat[w].messages) :
                   chat[w].messages[i].content # msg[w]
            /\ seen[w] = <<>>
            /\ saved[w] = NoChat
            /\ ~Has(trace[w], "save")

\* A goodbye on a stored session, goodbye text delivered.
C4_Witness ==
    \E w \in Workers :
        /\ pc[w] = "done"
        /\ msg[w] = <<"bye">>
        /\ base[w].len >= 3
        /\ sent[w][1].delivered

\* ------------------------------------------------------------------ C5
\* C5: the completion gets the session's full list ending with the user
\* turn just appended; a request without image directive saves a session
\* longer by exactly two, user then assistant; a new sender's completion sees
\* (system, user) and its saved session has 3 messages.
C5_FullPathTurns ==
    \A w \in Workers :
        /\ Has(trace[w], "completion") =>
              /\ Len(seen[w]) = base[w].len + 1
              /\ seen[w][Len(seen[w])] = make_message(msg[w], "user")
              /\ SubSeq(chat[w].messages, 1, Len(seen[w])) = seen[w]
              /\ base[w].fresh => Roles(seen[w]) = <<"system", "user">>
        /\ (Has(trace[w], "completion") /\ ~HasDirective(reply[w].raw)) =>
              /\ pc[w] \in {"deliver", "save", "done"}
              /\ pc[w] = "done" =>
                    LET ms == saved[w].messages
                    IN  /\ Len(ms) = base[w].len + 2
                        /\ SubSeq(ms, 1, Len(ms) - 1) = seen[w]
                        /\ ms[Len(ms)].role = "assistant"
                        /\ base[w].fresh => Len(ms) = 3

\* A new sender's request, finished: three messages saved.
C5_Witness ==
    \E w \in Workers :
        /\ pc[w] = "done"
        /\ base[w].fresh
        /\ Roles(saved[w].messages) = <<"system", "user", "assistant">>
        /\ store[PhoneOf(w)] = saved[w]

\* ------------------------------------------------------------------ C6
\* C6: with an image directive in the reply, the text sent and the
\* assistant turn are the reply without the directive; the marker comes
\* after the assistant turn and before image generation, and save comes
\* after image generation.  Without a directive there is no marker and no
\* image generation.
C6_ImageDirective ==
    \A w \in Workers :
        Has(trace[w], "add_assistant") =>
            LET raw == reply[w].raw
                ms == chat[w].messages
                n == base[w].len
            IN  /\ sent[w][1].text = WithoutDirective(raw)
                /\ ms[n + 2] = make_message(WithoutDirective(raw), "assistant")
                /\ HasDirective(raw) =>
                      /\ sent[w][1].text # Strip(raw)
                      /\ Len(ms) = n + 3
                      /\ ms[n + 3].role = "system"
                      /\ ms[n + 3].content = <<"[img:", "bike", "]">>
                      /\ Has(trace[w], "add_marker")
                      /\ Before(trace[w], "add_assistant", "add_marker")
                      /\ Before(trace[w], "add_marker", "image")
                      /\ Before(trace[w], "image", "save")
                      /\ Has(trace[w], "save") => Has(trace[w], "image")
                /\ ~HasDirective(raw) =>
                      /\ Len(ms) = n + 2
                      /\ ~Has(trace[w], "add_marker")
                      /\ ~Has(trace[w], "image")
                      /\ pc[w] # "image"

\* A reply with a directive, saved after image generation.
C6_Witness ==
    \E w \in Workers :
        /\ pc[w] = "done"
        /\ HasDirective(reply[w].raw)
        /\ Has(trace[w], "image")
        /\ Has(trace[w], "save")
        /\ saved[w].messages[base[w].len + 2].content = <<"ok">>

\* ------------------------------------------------------------------ C7
\* C7: no request that passed the empty/goodbye checks ends without an
\* outbound message to the user; a failed completion ends in an apology.
C7_FailureStillAnswers ==
    \A w \in Workers :
        (Finished(w) /\ PassedChecks(msg[w])) =>
            /\ sent[w] # <<>>
            /\ Has(trace[w], "completion_failed") =>
                   sent[w][Len(sent[w])].text = SorryText

\* ------------------------------------------------------------------ C8
\* C8: save writes the handler's own copy of the session over whatever the
\* store holds for the sender: the later save wins.
C8_LastSaveWins ==
    [][\A w \in Workers :
          (pc[w] = "save" /\ pc'[w] = "done") =>
              /\ PhoneOf(w) \in DOMAIN store'
              /\ store'[PhoneOf(w)] = chat[w]]_vars

\* Two requests of one sender, both through the full path and saved, that
\* read the same session: the store holds the turns of only one of them.
C8_Witness ==
    \E v, w \in Workers :
        /\ v # w
        /\ pc[v] = "done" /\ pc[w] = "done"
        /\ saved[v] # NoChat /\ saved[w] # NoChat
        /\ PhoneOf(v) = PhoneOf(w)
        /\ base[v].len = base[w].len
        /\ store[PhoneOf(w)] = saved[w]
        /\ Len(store[PhoneOf(w)].messages) <= base[w].len + 3

\* ------------------------------------------------------------------ C9
\* C9: language detection runs in exactly the requests that pass the checks
\* on a session of length 1, before the user turn and the completion; a
\* short-circuited request saves nothing and leaves the list as long as it
\* was, and no request runs detection while the store holds turns of its
\* sender.
C9_LanguageBootstrap ==
    /\ \A w \in Workers :
          /\ pc[w] \in {"gen", "deliver", "image", "save", "done", "error"} =>
                (Has(trace[w], "language") <=>
                    (PassedChecks(msg[w]) /\ base[w].len = 1))
          /\ pc[w] = "lang" => (PassedChecks(msg[w]) /\ base[w].len = 1)
          /\ Before(trace[w], "language", "add_user")
          /\ Before(trace[w], "language", "completion")
          /\ Before(trace[w], "language", "completion_failed")
          /\ (InFlight(w) /\ (pc[w] = "lang" \/ Has(trace[w], "language"))) =>
                (PhoneOf(w) \in DOMAIN store =>
                    Len(store[PhoneOf(w)].messages) = 1)
          /\ (Finished(w) /\ ~PassedChecks(msg[w])) =>
                /\ saved[w] = NoChat
                /\ Len(chat[w].messages) = base[w].len
                /\ ~Has(trace[w], "language")

\* A request that passed the checks on a saved session and goes on without
\* language detection.
C9_Witness ==
    \E w \in Workers :
        /\ pc[w] = "gen"
        /\ base[w].len >= 3
        /\ PassedChecks(msg[w])
        /\ ~Has(trace[w], "language")

\* ------------------------------------------------------------------ C10
\* C10: every stored session is a system prompt followed by groups of
\* (user, assistant, optional image marker), also after an aborted request.
C10_StoredShape ==
    \A ph \in DOMAIN store : WellShaped(store[ph].messages)

\* A request on a stored session aborted by a failed completion after the
\* user turn was appended; the store does not hold that turn.
C10_Witness ==
    \E w \in Workers :
        /\ pc[w] = "error"
        /\ Has(trace[w], "completion_failed")
        /\ PhoneOf(w) \in DOMAIN store
        /\ base[w].len >= 3
        /\ Len(chat[w].messages) = Len(store[PhoneOf(w)].messages) + 1
        /\ chat[w].messages[Len(chat[w].messages)].role = "user"

====
